---- MODULE Spec2Model ----
(***************************************************************************)
(* The BirthdayLove picture-frame component (src/unnamed/part_000).        *)
(*                                                                         *)
(* Numbers are fixed-point: every length, time and blend factor is an      *)
(* integer count of 1/ONE (a position of 1.5 is 15000).  Orientations are  *)
(* rotations about the Y axis, tableRotation = [0, angle, 0]; a quaternion *)
(* of that family is represented by its angle, the identity quaternion by  *)
(* the angle 0, and slerp between two of them is the linear blend of the   *)
(* angles.  The camera looks along a coordinate axis, so its world         *)
(* direction is a unit vector with entries in {-ONE, 0, ONE}.              *)
(*                                                                         *)
(* React is modelled at the grain of commits: a render and its commit are  *)
(* one step, the passive effects (useEffect) of that commit are a second   *)
(* step (FlushEffects), and React flushes pending passive effects before   *)
(* it starts another commit; the commit that removes the component only   *)
(* detaches it, and the cleanup of its effects runs in that second step    *)
(* too.  setIsHovered does not assign the state: it                        *)
(* queues the value, and the next commit (the re-render it schedules, or a *)
(* commit of the parent that comes first) applies it.  Pointer events and  *)
(* frames may arrive between a commit and its effects, and between a       *)
(* setIsHovered call and the commit that applies it; they read the         *)
(* isHovered and isActive of the last commit.                              *)
(*                                                                         *)
(* The props the component does not name are spread on the group that      *)
(* holds groupRef, so a position or rotation among them reaches the node:  *)
(* the host applies it when it creates the node and in a commit where its  *)
(* value differs from the last one, and resets the node's property to its  *)
(* default in a commit where the prop is gone.                             *)
(* A quaternion passed through acts as a rotation does.                    *)
(***************************************************************************)
EXTENDS Integers, Sequences, FiniteSets, TLC

VARIABLES
    mounted,          \* the component instance exists (groupRef.current is set)
    isActive,         \* prop isActive, owned by the parent
    isHovered,        \* useState(false): the state as of the last commit
    hoverUpdate,      \* the value queued by setIsHovered since then (<<>>: none)
    tablePosition,    \* prop tablePosition
    tableRotation,    \* prop tableRotation, as the angle about Y
    defaultPosition,  \* the memoized Vector3 built from tablePosition
    defaultQuaternion, \* the memoized Quaternion built from tableRotation
    cameraPosition,   \* camera.position
    cameraDirection,  \* camera.getWorldDirection()
    groupPosition,    \* groupRef.current.position
    groupQuaternion,  \* groupRef.current.quaternion
    tmpPosition,      \* the scratch vector holding the position target
    tmpQuaternion,    \* the scratch quaternion holding the rotation target
    pictureMaterial,  \* the material of the current render (0: none)
    staleMaterial,    \* the material of the previous commit whose cleanup is pending (0: none)
    disposed,         \* material -> number of dispose() calls it received
    created,          \* number of materials constructed so far
    pendingEffects,   \* passive effects of the last commit that have not run yet
    toggled,          \* the arguments of the onToggle calls, in order
    groupProps,       \* the position / rotation props passed through to the group
    frames            \* number of frames rendered so far

vars == <<mounted, isActive, isHovered, hoverUpdate, tablePosition,
          tableRotation, defaultPosition, defaultQuaternion, cameraPosition,
          cameraDirection, groupPosition, groupQuaternion, tmpPosition,
          tmpQuaternion, pictureMaterial, staleMaterial, disposed, created,
          pendingEffects, toggled, groupProps, frames>>

----------------------------------------------------------------------------
(* Bounds of the model. *)

MaxFrames == 2
MaxMaterials == 2
MaxToggles == 1
ConvergeEps == 2

----------------------------------------------------------------------------
(* Fixed-point arithmetic and the program's constants. *)

ONE == 10000

LerpRate == 12
SlerpRate == 10

CAMERA_DISTANCE == (3 * ONE) \div 2
CAMERA_Y_FLOOR == (8 * ONE) \div 10
HOVER_LIFT == (5 * ONE) \div 100

cameraOffset == <<0, 0 - ((5 * ONE) \div 100), 0>>

\* n / d rounded to the nearest integer (d > 0), as a floating-point
\* operation rounds its exact result to the nearest representable number.
RoundDiv(n, d) == (2 * n + d) \div (2 * d)

\* a * b of two fixed-point numbers.
Mul(a, b) == RoundDiv(a * b, ONE)

\* The terms of the series of e^(-x) from the n-th on, 0 <= x <= ONE,
\* term being the n-th one.
RECURSIVE ExpSeries(_, _, _)
ExpSeries(x, n, term) ==
    IF term = 0 THEN 0
    ELSE term + ExpSeries(x, n + 1, RoundDiv(0 - (term * x), (n + 1) * ONE))

\* Math.exp(-x) for x >= 0: e^(-x) = (e^(-x/2))^2 above 1, the series below.
RECURSIVE ExpNeg(_)
ExpNeg(x) ==
    IF x > ONE
    THEN LET h == ExpNeg(x \div 2) IN Mul(h, h)
    ELSE ExpSeries(x, 0, ONE)

\* The blend factor with the sign of the exponential term slipped.
LerpAlphaOver(delta) == ONE + ExpNeg(delta * LerpRate)

LerpAlpha(delta) == ONE - ExpNeg(delta * LerpRate)
SlerpAlpha(delta) == ONE - ExpNeg(delta * SlerpRate)

\* Vector3.add, Vector3.multiplyScalar, Vector3.lerp.
VAdd(a, b) == <<a[1] + b[1], a[2] + b[2], a[3] + b[3]>>
VScale(a, s) == <<Mul(a[1], s), Mul(a[2], s), Mul(a[3], s)>>
Lerp1(x, t, alpha) == x + Mul(t - x, alpha)
VLerp(p, t, alpha) ==
    <<Lerp1(p[1], t[1], alpha), Lerp1(p[2], t[2], alpha), Lerp1(p[3], t[3], alpha)>>

\* Quaternion.slerp on rotations about one axis.
Slerp(q, t, alpha) == q + Mul(t - q, alpha)

\* new Vector3(), new Quaternion(), and a new Group's transform.
ZeroVector == <<0, 0, 0>>
IdentityQuaternion == 0

----------------------------------------------------------------------------
(* Inputs. *)

\* prop id
id == "love"

\* props tablePosition and tableRotation ([0, angle, 0]) the parent passes
Tables ==
    { <<(<<ONE, 0, 2 * ONE>>), (5 * ONE) \div 10>>,
      <<(<<0 - ONE, ONE, 0>>), 0 - ((3 * ONE) \div 10)>> }

\* camera.position and camera.getWorldDirection()
Cameras ==
    { <<(<<0, ONE, 0>>), (<<0, 0, 0 - ONE>>)>>,
      <<(<<2 * ONE, (6 * ONE) \div 10, 3 * ONE>>), (<<0, 0, 0 - ONE>>)>> }

\* frame times: 1/60 s, 4 s
Deltas == {167, 4 * ONE}

\* The position and rotation ([0, angle, 0]) among the pass-through props
\* (...groupProps), each absent (<<>>) or present: neither, or both.
GroupProps ==
    { [position |-> <<>>, rotation |-> <<>>],
      [position |-> << <<0, 2 * ONE, 0 - ONE>> >>, rotation |-> <<ONE>>] }

\* The effects a mount schedules; "unmount" stands for the cleanups that the
\* commit removing the component schedules.
Effects == {"placement", "active", "material"}

----------------------------------------------------------------------------
(* Values derived in render. *)

\* useMemo(() => new Vector3(...tablePosition), [tablePosition])
MemoPosition(tp) == tp

\* useMemo(() => new Quaternion().setFromEuler(new Euler(...tableRotation)))
MemoQuaternion(tr) == tr

\* The position target of the active branch of the frame callback.
CameraRelative(cp, cd) == VAdd(VAdd(cp, VScale(cd, CAMERA_DISTANCE)), cameraOffset)

\* The active branch without its floor.
ClampFloorNone(p) == p

ClampFloor(p) == IF p[2] < CAMERA_Y_FLOOR THEN <<p[1], CAMERA_Y_FLOOR, p[3]>> ELSE p

ActiveTarget(cp, cd) == ClampFloor(CameraRelative(cp, cd))

\* The position target of the inactive branch.
RestTarget(dp, hovered) == IF hovered THEN <<dp[1], dp[2] + HOVER_LIFT, dp[3]>> ELSE dp

\* The inactive branch aliasing the memoized vector instead of copying it.
RestBranchAliased(dp, hovered) ==
    [target |-> RestTarget(dp, hovered), default |-> RestTarget(dp, hovered)]

\* positionTarget.copy(defaultPosition); if (isHovered) positionTarget.y += HOVER_LIFT:
\* the two vectors after the statements.
RestBranch(dp, hovered) == [target |-> RestTarget(dp, hovered), default |-> dp]

PositionTarget ==
    IF isActive THEN ActiveTarget(cameraPosition, cameraDirection)
    ELSE RestBranch(defaultPosition, isHovered).target

\* The rotation target: written in the inactive branch only.
RotationTarget == IF isActive THEN tmpQuaternion ELSE defaultQuaternion

----------------------------------------------------------------------------
(* The host applying a pass-through prop to the group. *)

\* The node's property after the host applied the prop: the value passed,
\* or the default of a new Group when none is.
HostValue(prop, default) == IF prop = <<>> THEN default ELSE prop[1]

\* A commit: a prop whose value is the one of the last commit is skipped.
HostApply(old, new, current, default) ==
    IF new = old THEN current ELSE HostValue(new, default)

----------------------------------------------------------------------------
(* The state after the first commit: the node was created with the        *)
(* pass-through props applied, and the mount effects are pending.          *)
Init ==
    /\ mounted = TRUE
    /\ isActive \in BOOLEAN
    /\ isHovered = FALSE
    /\ hoverUpdate = <<>>
    /\ \E t \in Tables : tablePosition = t[1] /\ tableRotation = t[2]
    /\ defaultPosition = MemoPosition(tablePosition)
    /\ defaultQuaternion = MemoQuaternion(tableRotation)
    /\ \E c \in Cameras : cameraPosition = c[1] /\ cameraDirection = c[2]
    /\ groupProps \in GroupProps
    /\ groupPosition = HostValue(groupProps.position, ZeroVector)
    /\ groupQuaternion = HostValue(groupProps.rotation, IdentityQuaternion)
    /\ tmpPosition = ZeroVector
    /\ tmpQuaternion = IdentityQuaternion
    /\ pictureMaterial = 1
    /\ staleMaterial = 0
    /\ disposed = [m \in 1..MaxMaterials |-> 0]
    /\ created = 1
    /\ pendingEffects = Effects
    /\ toggled = <<>>
    /\ frames = 0

----------------------------------------------------------------------------
(* The isHovered state hook. *)

\* setIsHovered(v): queue v for the next render; a value equal to the
\* current state with nothing queued schedules no render.
SetIsHovered(q, v) == IF q = <<>> /\ v = isHovered THEN <<>> ELSE <<v>>

\* useState in a render: the last queued value, or the state kept.
HoverState(q, hovered) == IF q = <<>> THEN hovered ELSE q[1]

----------------------------------------------------------------------------
(* Passive effects. *)

\* The placement effect without its dependency list: it runs in every flush.
PlacementEffectAlways(pos, quat) == <<defaultPosition, defaultQuaternion>>

\* useEffect(..., [defaultPosition, defaultQuaternion]): place the group on the table.
PlacementEffect(pos, quat) ==
    IF "placement" \in pendingEffects
    THEN <<defaultPosition, defaultQuaternion>>
    ELSE <<pos, quat>>

\* The isActive effect without the setIsHovered(false) call.
ActiveEffectKeeps(q) == q

\* useEffect(..., [isActive]): setIsHovered(false) when not active.
ActiveEffect(q) ==
    IF "active" \in pendingEffects /\ ~isActive THEN SetIsHovered(q, FALSE) ELSE q

\* useEffect(() => () => pictureMaterial.dispose(), [pictureMaterial]):
\* the cleanup of the previous commit's effect disposes its material.
Dispose(d, m) == IF m = 0 THEN d ELSE [d EXCEPT ![m] = @ + 1]

\* The material effect returning no cleanup.
MaterialCleanupSkips(d) == d

\* The cleanup runs for the material a commit replaced, and for the
\* current one when the component was removed.
MaterialCleanup(d) ==
    IF "material" \in pendingEffects THEN Dispose(d, staleMaterial)
    ELSE IF "unmount" \in pendingEffects THEN Dispose(d, pictureMaterial)
    ELSE d

FlushEffects ==
    /\ pendingEffects # {}
    /\ LET placed == PlacementEffect(groupPosition, groupQuaternion) IN
        /\ groupPosition' = placed[1]
        /\ groupQuaternion' = placed[2]
    /\ hoverUpdate' = ActiveEffect(hoverUpdate)
    /\ disposed' = MaterialCleanup(disposed)
    /\ staleMaterial' = 0
    /\ pendingEffects' = {}
    /\ UNCHANGED <<mounted, isActive, isHovered, tablePosition,
                   tableRotation, defaultPosition, defaultQuaternion,
                   cameraPosition, cameraDirection, tmpPosition,
                   tmpQuaternion, pictureMaterial, created, toggled, frames,
                   groupProps>>

----------------------------------------------------------------------------
(* Commits caused by the parent.  React runs the pending passive effects  *)
(* before it starts a commit, so a commit waits for FlushEffects.  The     *)
(* render of a commit applies the queued hover state.                      *)

\* The parent flips the isActive prop.
SetActive(b) ==
    /\ mounted
    /\ pendingEffects = {}
    /\ b # isActive
    /\ isActive' = b
    /\ pendingEffects' = {"active"}
    /\ isHovered' = HoverState(hoverUpdate, isHovered)
    /\ hoverUpdate' = <<>>
    /\ UNCHANGED <<mounted, tablePosition, tableRotation, defaultPosition,
                   defaultQuaternion, cameraPosition, cameraDirection,
                   groupPosition, groupQuaternion, tmpPosition,
                   tmpQuaternion, pictureMaterial, staleMaterial, disposed,
                   created, toggled, frames,
                   groupProps>>

\* The parent passes new tablePosition / tableRotation arrays.
SetTable(t) ==
    /\ mounted
    /\ pendingEffects = {}
    /\ tablePosition' = t[1]
    /\ tableRotation' = t[2]
    /\ defaultPosition' = MemoPosition(t[1])
    /\ defaultQuaternion' = MemoQuaternion(t[2])
    /\ pendingEffects' = {"placement"}
    /\ isHovered' = HoverState(hoverUpdate, isHovered)
    /\ hoverUpdate' = <<>>
    /\ UNCHANGED <<mounted, isActive, cameraPosition, cameraDirection,
                   groupPosition, groupQuaternion, tmpPosition,
                   tmpQuaternion, pictureMaterial, staleMaterial, disposed,
                   created, toggled, frames,
                   groupProps>>

\* The image prop resolves to another texture: useMemo builds a new material.
SetImage ==
    /\ mounted
    /\ pendingEffects = {}
    /\ created < MaxMaterials
    /\ created' = created + 1
    /\ pictureMaterial' = created + 1
    /\ staleMaterial' = pictureMaterial
    /\ pendingEffects' = {"material"}
    /\ isHovered' = HoverState(hoverUpdate, isHovered)
    /\ hoverUpdate' = <<>>
    /\ UNCHANGED <<mounted, isActive, tablePosition, tableRotation,
                   defaultPosition, defaultQuaternion, cameraPosition,
                   cameraDirection, groupPosition, groupQuaternion,
                   tmpPosition, tmpQuaternion, disposed, toggled, frames,
                   groupProps>>

\* The parent passes other pass-through props: the host applies the
\* position and the rotation that changed; no effect depends on them.
SetGroupProps(g) ==
    /\ mounted
    /\ pendingEffects = {}
    /\ g # groupProps
    /\ groupProps' = g
    /\ groupPosition' =
         HostApply(groupProps.position, g.position, groupPosition, ZeroVector)
    /\ groupQuaternion' =
         HostApply(groupProps.rotation, g.rotation, groupQuaternion, IdentityQuaternion)
    /\ isHovered' = HoverState(hoverUpdate, isHovered)
    /\ hoverUpdate' = <<>>
    /\ UNCHANGED <<mounted, isActive, tablePosition, tableRotation,
                   defaultPosition, defaultQuaternion, cameraPosition,
                   cameraDirection, tmpPosition, tmpQuaternion,
                   pictureMaterial, staleMaterial, disposed, created,
                   pendingEffects, toggled, frames>>

\* The parent removes the component: the commit detaches the group (the
\* ref, the frame subscription, the handlers) and schedules the cleanups.
Unmount ==
    /\ mounted
    /\ pendingEffects = {}
    /\ mounted' = FALSE
    /\ pendingEffects' = {"unmount"}
    /\ UNCHANGED <<isActive, isHovered, hoverUpdate, tablePosition,
                   tableRotation, defaultPosition, defaultQuaternion,
                   cameraPosition, cameraDirection, groupPosition,
                   groupQuaternion, tmpPosition, tmpQuaternion,
                   pictureMaterial, staleMaterial, disposed, created,
                   toggled, frames,
                   groupProps>>

----------------------------------------------------------------------------
(* Pointer handlers.  event.stopPropagation() acts on the event only.      *)

\* handlePointerOver without the isActive test, and with the test inverted.
HoverOnOverAlways(q) == SetIsHovered(q, TRUE)
HoverOnOverInverted(q) == IF isActive THEN SetIsHovered(q, TRUE) ELSE q

\* if (!isActive) setIsHovered(true)
HoverOnOver(q) == IF ~isActive THEN SetIsHovered(q, TRUE) ELSE q

\* setIsHovered(false)
HoverOnOut(q) == SetIsHovered(q, FALSE)

handlePointerOver ==
    /\ mounted
    /\ hoverUpdate' = HoverOnOver(hoverUpdate)
    /\ UNCHANGED <<mounted, isActive, isHovered, tablePosition,
                   tableRotation, defaultPosition, defaultQuaternion,
                   cameraPosition, cameraDirection, groupPosition,
                   groupQuaternion, tmpPosition, tmpQuaternion,
                   pictureMaterial, staleMaterial, disposed, created,
                   pendingEffects, toggled, frames,
                   groupProps>>

handlePointerOut ==
    /\ mounted
    /\ hoverUpdate' = HoverOnOut(hoverUpdate)
    /\ UNCHANGED <<mounted, isActive, isHovered, tablePosition,
                   tableRotation, defaultPosition, defaultQuaternion,
                   cameraPosition, cameraDirection, groupPosition,
                   groupQuaternion, tmpPosition, tmpQuaternion,
                   pictureMaterial, staleMaterial, disposed, created,
                   pendingEffects, toggled, frames,
                   groupProps>>

handlePointerDown ==
    /\ mounted
    /\ UNCHANGED vars

\* handleClick flipping the flag itself.
ActiveOnClickFlips(active) == ~active

\* onToggle(id): the parent records the request; it alone changes isActive.
ActiveOnClick(active) == active

handleClick ==
    /\ mounted
    /\ Len(toggled) < MaxToggles
    /\ toggled' = Append(toggled, id)
    /\ isActive' = ActiveOnClick(isActive)
    /\ UNCHANGED <<mounted, isHovered, hoverUpdate, tablePosition,
                   tableRotation, defaultPosition, defaultQuaternion,
                   cameraPosition, cameraDirection, groupPosition,
                   groupQuaternion, tmpPosition, tmpQuaternion,
                   pictureMaterial, staleMaterial, disposed, created,
                   pendingEffects, frames,
                   groupProps>>

----------------------------------------------------------------------------
(* The re-render a setIsHovered call scheduled: it changes no dependency  *)
(* of an effect.                                                           *)
Rerender ==
    /\ mounted
    /\ pendingEffects = {}
    /\ hoverUpdate # <<>>
    /\ isHovered' = HoverState(hoverUpdate, isHovered)
    /\ hoverUpdate' = <<>>
    /\ UNCHANGED <<mounted, isActive, tablePosition, tableRotation,
                   defaultPosition, defaultQuaternion, cameraPosition,
                   cameraDirection, groupPosition, groupQuaternion,
                   tmpPosition, tmpQuaternion, pictureMaterial,
                   staleMaterial, disposed, created, pendingEffects, toggled,
                   frames,
                   groupProps>>

----------------------------------------------------------------------------
(* The host moves the camera. *)
MoveCamera(c) ==
    /\ <<cameraPosition, cameraDirection>> # c
    /\ cameraPosition' = c[1]
    /\ cameraDirection' = c[2]
    /\ UNCHANGED <<mounted, isActive, isHovered, hoverUpdate, tablePosition,
                   tableRotation, defaultPosition, defaultQuaternion,
                   groupPosition, groupQuaternion, tmpPosition,
                   tmpQuaternion, pictureMaterial, staleMaterial, disposed,
                   created, pendingEffects, toggled, frames,
                   groupProps>>

----------------------------------------------------------------------------
(* The frame callback (useFrame). *)
Frame(delta) ==
    /\ mounted
    /\ tmpPosition' = PositionTarget
    /\ tmpQuaternion' = RotationTarget
    /\ groupPosition' = VLerp(groupPosition, PositionTarget, LerpAlpha(delta))
    /\ groupQuaternion' = Slerp(groupQuaternion, RotationTarget, SlerpAlpha(delta))
    /\ defaultPosition' =
         IF isActive THEN defaultPosition
         ELSE RestBranch(defaultPosition, isHovered).default
    /\ UNCHANGED <<mounted, isActive, isHovered, hoverUpdate, tablePosition,
                   tableRotation, defaultQuaternion, cameraPosition,
                   cameraDirection, pictureMaterial, staleMaterial, disposed,
                   created, pendingEffects, toggled,
                   groupProps>>

Tick ==
    /\ frames < MaxFrames
    /\ frames' = frames + 1
    /\ \E delta \in Deltas : Frame(delta)

Next ==
    \/ FlushEffects
    \/ \E b \in BOOLEAN : SetActive(b)
    \/ \E t \in Tables : SetTable(t)
    \/ SetImage
    \/ \E g \in GroupProps : SetGroupProps(g)
    \/ Unmount
    \/ Rerender
    \/ handlePointerOver
    \/ handlePointerOut
    \/ handlePointerDown
    \/ handleClick
    \/ \E c \in Cameras : MoveCamera(c)
    \/ Tick

Spec == Init /\ [][Next]_vars

----------------------------------------------------------------------------
(* The component at rest: not active, not hovered, the table fixed, and    *)
(* frames of positive length arriving forever.  It starts where a frame    *)
(* of 4 s left the node: in front of a camera, or lifted above the table.  *)

\* frame times at rest: 1/60 s, 0.1 s, 4 s
RestDeltas == Deltas \cup {1000}

InitRest ==
    /\ mounted = TRUE
    /\ isActive = FALSE
    /\ isHovered = FALSE
    /\ hoverUpdate = <<>>
    /\ \E t \in Tables : tablePosition = t[1] /\ tableRotation = t[2]
    /\ defaultPosition = MemoPosition(tablePosition)
    /\ defaultQuaternion = MemoQuaternion(tableRotation)
    /\ \E c \in Cameras : cameraPosition = c[1] /\ cameraDirection = c[2]
    /\ \/ /\ groupPosition = ActiveTarget(cameraPosition, cameraDirection)
          /\ groupQuaternion = IdentityQuaternion
          /\ tmpQuaternion = IdentityQuaternion
       \/ /\ groupPosition = RestTarget(defaultPosition, TRUE)
          /\ groupQuaternion = defaultQuaternion
          /\ tmpQuaternion = defaultQuaternion
    /\ tmpPosition = groupPosition
    /\ groupProps \in GroupProps
    /\ pictureMaterial = 1
    /\ staleMaterial = 0
    /\ disposed = [m \in 1..MaxMaterials |-> 0]
    /\ created = 1
    /\ pendingEffects = {}
    /\ toggled = <<>>
    /\ frames = 1

NextRest == \E delta \in RestDeltas : Frame(delta) /\ UNCHANGED frames

SpecRest == InitRest /\ [][NextRest]_vars /\ WF_vars(NextRest)

----------------------------------------------------------------------------
(* Properties. *)

Abs(n) == IF n < 0 THEN 0 - n ELSE n
Max(a, b) == IF a < b THEN b ELSE a

\* The distance of two points, as the largest coordinate difference and as
\* the sum of the coordinate differences.
DistMax(p, q) == Max(Abs(p[1] - q[1]), Max(Abs(p[2] - q[2]), Abs(p[3] - q[3])))
DistSum(p, q) == Abs(p[1] - q[1]) + Abs(p[2] - q[2]) + Abs(p[3] - q[3])

\* b lies between a and c (ends included).
Between(a, b, c) == (a <= b /\ b <= c) \/ (c <= b /\ b <= a)

\* A step in which the isActive effect of the last commit runs.
ActiveEffectRuns == "active" \in pendingEffects /\ "active" \notin pendingEffects'

\* A step in which the placement effect of the last commit runs.
PlacementEffectRuns == "placement" \in pendingEffects /\ "placement" \notin pendingEffects'

\* A step that is one frame: only the frame callback counts frames.
FrameRuns == frames' = frames + 1

\* A step that writes the node's transform.
TransformWritten == groupPosition' # groupPosition \/ groupQuaternion' # groupQuaternion

\* A step that is a commit with other pass-through props.
HostApplies == groupProps' # groupProps

\* The hover state the next render will produce.
NextHover == HoverState(hoverUpdate, isHovered)

\* A step that is a commit applying the queued hover state.
HoverCommitted == hoverUpdate # <<>> /\ hoverUpdate' = <<>> /\ mounted'

\* C1 as stated: once the isActive effect has run for a commit in which
\* active is false, hovered is false.
C1_Original ==
    [][(ActiveEffectRuns /\ ~isActive) => ~isHovered']_vars

\* C1 amended: the isActive effect of an inactive commit requests hovered =
\* false (the next render will produce false); hovered itself keeps its
\* value through the effect and takes the requested one in the commit that
\* follows.
C1_DeactivationRequestsHoverOff ==
    [][ /\ (ActiveEffectRuns /\ ~isActive) => (~NextHover' /\ isHovered' = isHovered)
        /\ HoverCommitted => (isHovered' = hoverUpdate[1]) ]_vars

\* C1 witness: deactivated while hovered, the effect has run and queued
\* false, hovered is still true and a frame used the lifted target.
C1_Witness ==
    /\ mounted /\ ~isActive /\ isHovered /\ hoverUpdate = <<FALSE>>
    /\ pendingEffects = {} /\ toggled = <<id>>
    /\ frames > 0 /\ tmpPosition = RestTarget(defaultPosition, TRUE)

\* C2 as stated: in every reachable state, not active implies not hovered.
C2_Original == ~isActive => ~isHovered

\* C2 amended: an inactive state may be hovered (after a pointer-enter);
\* what holds is that hovered = true is requested only in a step taken
\* while active is false, and hovered becomes true only in a commit that
\* applies such a request.
C2_HoverRequestedOnlyWhileInactive ==
    [][ /\ (hoverUpdate' # hoverUpdate /\ hoverUpdate' = <<TRUE>>) => (~isActive /\ ~isActive')
        /\ (~isHovered /\ isHovered') => (hoverUpdate = <<TRUE>> /\ hoverUpdate' = <<>>) ]_vars

\* C2 witness: inactive and hovered, with no effect pending.
C2_Witness ==
    mounted /\ ~isActive /\ isHovered /\ hoverUpdate = <<>> /\ pendingEffects = {}

\* C3: a step that calls onToggle calls it once, with id, and leaves active
\* alone; active changes only in a commit made by the parent.
C3_OnlyOwnerChangesActive ==
    [][ /\ handleClick => (toggled' = Append(toggled, id) /\ isActive' = isActive)
        /\ (toggled' # toggled) => (toggled' = Append(toggled, id) /\ isActive' = isActive)
        /\ (isActive' # isActive) => (toggled' = toggled /\ pendingEffects' = {"active"}) ]_vars

\* C3 witness: a click was handled while active, and active is as it was.
C3_Witness == toggled = <<id>> /\ isActive /\ isHovered /\ pendingEffects = {}

\* C4: pointer-enter requests hovered = true when active is false and
\* requests nothing when active is true; pointer-leave requests false
\* either way; neither changes hovered before the next commit.
C4_PointerEnterLeave ==
    [][ /\ handlePointerOver =>
              /\ NextHover' = (IF isActive THEN NextHover ELSE TRUE)
              /\ isActive => hoverUpdate' = hoverUpdate
              /\ isHovered' = isHovered
        /\ handlePointerOut => (~NextHover' /\ isHovered' = isHovered) ]_vars

\* C4 witness: active, not hovered, after frames ran (a pointer-enter here changes nothing).
C4_Witness ==
    /\ mounted /\ isActive /\ ~isHovered /\ hoverUpdate = <<>>
    /\ pendingEffects = {} /\ frames = MaxFrames

\* C5: a frame with active = true leaves as position target the camera
\* position + direction * 1.5 + (0, -0.05, 0) with y raised to 0.8 when
\* below it; x and z are not altered.
C5_ActiveTargetClamped ==
    [][(FrameRuns /\ isActive) =>
        LET rel == <<cameraPosition[1] + (3 * cameraDirection[1]) \div 2,
                     cameraPosition[2] + (3 * cameraDirection[2]) \div 2 - (5 * ONE) \div 100,
                     cameraPosition[3] + (3 * cameraDirection[3]) \div 2>>
            floor == (8 * ONE) \div 10
        IN  /\ tmpPosition'[1] = rel[1]
            /\ tmpPosition'[3] = rel[3]
            /\ tmpPosition'[2] >= floor
            /\ (rel[2] < floor) => tmpPosition'[2] = floor
            /\ (rel[2] >= floor) => tmpPosition'[2] = rel[2]
            /\ (cameraPosition = <<0, ONE, 0>> /\ cameraDirection = <<0, 0, 0 - ONE>>)
                 => tmpPosition' = <<0, (95 * ONE) \div 100, 0 - (3 * ONE) \div 2>> ]_vars

\* C5 witness: an active frame ran and the floor replaced a lower y.
C5_Witness ==
    /\ isActive /\ frames > 0
    /\ tmpPosition = ActiveTarget(cameraPosition, cameraDirection)
    /\ CameraRelative(cameraPosition, cameraDirection)[2] < CAMERA_Y_FLOOR
    /\ tmpPosition[2] = CAMERA_Y_FLOOR

\* C6: a frame with active = false leaves as position target the table
\* position, its y raised by 0.05 exactly when hovered, and leaves the stored
\* table position as it was.
C6_RestTargetLift ==
    [][(FrameRuns /\ ~isActive) =>
        /\ tmpPosition' = <<tablePosition[1],
                            tablePosition[2] + (IF isHovered THEN (5 * ONE) \div 100 ELSE 0),
                            tablePosition[3]>>
        /\ defaultPosition' = tablePosition
        /\ tablePosition' = tablePosition ]_vars

\* C6 witness: two hovered inactive frames ran and the target is lifted once.
C6_Witness ==
    /\ ~isActive /\ isHovered /\ frames >= 2
    /\ tmpPosition[2] = tablePosition[2] + HOVER_LIFT
    /\ groupPosition = tmpPosition

\* C7: at rest every frame moves each coordinate toward the table position
\* and not past it, so the distance does not grow; a frame of any positive
\* length still moves the node while it is farther than ConvergeEps (the
\* resolution of the arithmetic) from the table position; and the node
\* ends within ConvergeEps of it.
C7_ConvergesWithoutOvershoot ==
    /\ [][ /\ \A i \in 1..3 : Between(groupPosition[i], groupPosition'[i], tablePosition[i])
           /\ DistSum(groupPosition', tablePosition) <= DistSum(groupPosition, tablePosition)
           /\ DistMax(groupPosition', tablePosition) <= DistMax(groupPosition, tablePosition) ]_vars
    /\ [](\A delta \in RestDeltas :
            DistMax(groupPosition, tablePosition) > ConvergeEps =>
                DistSum(VLerp(groupPosition, tablePosition, LerpAlpha(delta)), tablePosition)
                    < DistSum(groupPosition, tablePosition))
    /\ <>[](DistMax(groupPosition, tablePosition) <= ConvergeEps)

\* C7 witness: frames ran at rest and the node is near the table, not on it.
C7_Witness ==
    /\ ~isActive /\ ~isHovered
    /\ tmpPosition = tablePosition
    /\ groupPosition # tablePosition
    /\ DistMax(groupPosition, tablePosition) <= ConvergeEps

\* C8: no material is disposed twice; the material of the current render is
\* not disposed while mounted; once the effects of a commit ran every
\* replaced material is disposed; once the cleanup of the removing commit
\* ran every material is, and that cleanup is scheduled by every removal.
C8_MaterialsReleased ==
    /\ \A m \in 1..MaxMaterials : disposed[m] <= 1
    /\ \A m \in 1..MaxMaterials : m > created => disposed[m] = 0
    /\ mounted => disposed[pictureMaterial] = 0
    /\ (mounted /\ pendingEffects = {}) =>
          \A m \in 1..created : m # pictureMaterial => disposed[m] = 1
    /\ (~mounted /\ pendingEffects = {}) => \A m \in 1..created : disposed[m] = 1
    /\ (~mounted /\ pendingEffects # {}) =>
          /\ pendingEffects = {"unmount"}
          /\ \A m \in 1..created : disposed[m] = (IF m = pictureMaterial THEN 0 ELSE 1)

\* C8 witness: removed after a texture change, the cleanup ran, both
\* materials disposed once.
C8_Witness ==
    /\ ~mounted /\ pendingEffects = {} /\ created >= 2
    /\ \A m \in 1..created : disposed[m] = 1

C10_Original ==
    [][(FrameRuns /\ isActive) =>
        /\ tmpQuaternion' = tmpQuaternion
        /\ \E t \in Tables : tmpQuaternion' = t[2] ]_vars

====
